---------------------------- MODULE Spec2Model ----------------------------
(***************************************************************************)
(* Model of SensorAPIMonitor (src/scraper.py): the credential refresh, the *)
(* sensor fetch with its error mapping, the CSV journal and the poll loop  *)
(* of run_for_duration.                                                    *)
(*                                                                         *)
(* Time is counted in ticks of half a second, so that instants that are    *)
(* not whole seconds exist.  Lengths are integers in 1/10000 mm (payload)  *)
(* and 1/1000 mm (rounded Sample fields).                                  *)
(***************************************************************************)
EXTENDS Integers, Sequences, FiniteSets, TLC

VARIABLES
    chrome,        \* the browser's cookie store, as browser_cookie3.chrome() lists it
    form_s,        \* self.form_data['s'], the stored session token
    jar,           \* self.session.cookies, keyed by (domain, name)
    refresh,       \* outcome of the most recent update_session_key_from_cookies call
    now,           \* the wall clock, in ticks
    fetched,       \* outcome of the most recent fetch_sensor_data call
    pc,            \* position of run_for_duration
    end_time,      \* run_for_duration: end_time
    fetch_start,   \* run_for_duration: fetch_start
    fetch_count,   \* run_for_duration: fetch_count
    sleep_time,    \* run_for_duration: sleep_time
    data,          \* run_for_duration: data, the Sample of the current cycle
    journal,       \* the content of self.output_file: a sequence of lines
    created,       \* whether the constructor created the journal file
    inits,         \* the init_csv_file calls so far: how many, and what they did
    sent,          \* the most recent request: the session token it carried
    exit,          \* how the loop of run_for_duration was left
    history,       \* one entry per save_data call: its Sample and what became of it
    summaries      \* the final summaries logged by run_for_duration

vars == <<chrome, form_s, jar, refresh, now, fetched, pc, end_time, fetch_start,
          fetch_count, sleep_time, data, journal, created, inits, sent, exit, history,
          summaries>>

credVars  == <<chrome, form_s, jar, refresh>>
fileVars  == <<journal, created, inits, history>>
loopVars  == <<pc, end_time, fetch_start, fetch_count, sleep_time, data, exit, summaries>>

-----------------------------------------------------------------------------
(* Bounds of the model *)

MaxCookies == 2      \* cookies in the browser's store
MaxEarly == 3        \* ticks before the experiment start at which the process may start
MaxStep == 2         \* ticks the clock may advance during one call
RunTicks == 2        \* the run's duration (days), in ticks
IntervalTicks == 1   \* interval_seconds, in ticks
MaxInits == 3        \* calls of init_csv_file, the constructor's included
MaxSaves == 2        \* direct calls of save_data

-----------------------------------------------------------------------------
(* Python exceptions: the classes an except clause can name, and for each  *)
(* exception that can be raised the classes it is an instance of.          *)

ExcBases(exc) ==
    CASE exc = "ConnectionError"       -> {"ConnectionError", "RequestException", "OSError", "Exception"}
      [] exc = "Timeout"               -> {"Timeout", "RequestException", "OSError", "Exception"}
      [] exc = "HTTPError"             -> {"HTTPError", "RequestException", "OSError", "Exception"}
      \* requests >= 2.27: response.json() raises requests.exceptions.JSONDecodeError
      [] exc = "RequestsJSONDecodeError" -> {"RequestsJSONDecodeError", "InvalidJSONError",
                                             "RequestException", "JSONDecodeError",
                                             "ValueError", "OSError", "Exception"}
      \* requests < 2.27 with the standard json module
      [] exc = "JSONDecodeError"       -> {"JSONDecodeError", "ValueError", "Exception"}
      \* requests < 2.27 with simplejson installed
      [] exc = "SimplejsonDecodeError" -> {"SimplejsonDecodeError", "ValueError", "Exception"}
      [] exc = "BrowserCookieError"    -> {"BrowserCookieError", "Exception"}
      [] exc = "PermissionError"       -> {"PermissionError", "OSError", "Exception"}
      [] exc = "KeyboardInterrupt"     -> {"KeyboardInterrupt", "BaseException"}
      [] OTHER                         -> {exc, "Exception"}

\* "except cls" catches exc
Catches(cls, exc) == cls \in ExcBases(exc)

NoExc == "none"

-----------------------------------------------------------------------------
(* Cookies *)

DefaultKey == "yWYFUnYGAQ"

MkCookie(name, value, domain) == [name |-> name, value |-> value, domain |-> domain]

\* the cookies the browser may hold
Cookie ==
    {MkCookie("MoodleSession", "A", "learn5.Open.ac.uk"),
     MkCookie("s", "A", "learn5.Open.ac.uk"),
     MkCookie("s", "B", "learn5.Open.ac.uk"),
     MkCookie("pref", "A", "learn5.Open.ac.uk"),
     MkCookie("MoodleSession", "B", "example.com")}

\* 'open.ac.uk' in cookie.domain.lower()
IsOUDomain(domain) == domain \in {"learn5.Open.ac.uk"}

\* 'session' in cookie.name.lower()
LowerHasSession(name) == name \in {"MoodleSession"}

\* 'session' in cookie.name.lower() or cookie.name == 's'
IsSessionKeyName(name) == LowerHasSession(name) \/ name = "s"

\* [cookie for cookie in all_chrome_cookies if 'open.ac.uk' in cookie.domain.lower()]
OUCookies(all) == SelectSeq(all, LAMBDA c : IsOUDomain(c.domain))

\* self.session.cookies.set(name, value, domain=..., path=...)
JarSet(j, c) == {d \in j : ~(d.name = c.name /\ d.domain = c.domain)} \cup {c}

\* One iteration of the loop of update_session_key_from_cookies over cookie c,
\* from the state st = [s, jar, transitions, updated]
RefreshStep(st, c) ==
    LET j == JarSet(st.jar, c) IN
    IF IsSessionKeyName(c.name) /\ c.value # st.s
    THEN [s |-> c.value, jar |-> j,
          transitions |-> Append(st.transitions, <<st.s, c.value>>), updated |-> TRUE]
    ELSE [st EXCEPT !.jar = j]

\* The loop over ou_cookies from index i on; the copy of cookie number failAt
\* raises copyExc (failAt = 0: no copy fails)
RECURSIVE RefreshLoop(_, _, _, _, _)
RefreshLoop(cookies, i, st, failAt, copyExc) ==
    IF i > Len(cookies) THEN [st |-> st, exc |-> NoExc]
    ELSE IF i = failAt THEN [st |-> st, exc |-> copyExc]
    ELSE RefreshLoop(cookies, i + 1, RefreshStep(st, cookies[i]), failAt, copyExc)

\* The faults a refresh can meet: none, the cookie read failing, the copy
\* of the k-th cookie failing
RefreshFaults ==
    {[at |-> "none", k |-> 0, exc |-> NoExc]}
    \cup {[at |-> "read", k |-> 0, exc |-> e] : e \in {"BrowserCookieError", "PermissionError"}}
    \cup {[at |-> "copy", k |-> k, exc |-> "CookieError"] : k \in 1..MaxCookies}

\* The body of the try block of update_session_key_from_cookies
RefreshBody(all, s, j, fault) ==
    LET st0 == [s |-> s, jar |-> j, transitions |-> << >>, updated |-> FALSE] IN
    IF fault.at = "read" THEN [st |-> st0, exc |-> fault.exc]
    ELSE RefreshLoop(OUCookies(all), 1, st0, fault.k, fault.exc)

\* The class the except clause of update_session_key_from_cookies names
RefreshExcept == "Exception"

\* update_session_key_from_cookies as a whole: the state it leaves and
\* whether an exception leaves the call
UpdateSessionKeyFromCookies(all, s, j, fault) ==
    LET r == RefreshBody(all, s, j, fault) IN
    [s           |-> r.st.s,
     jar         |-> r.st.jar,
     transitions |-> r.st.transitions,
     failed      |-> r.exc # NoExc,
     raised      |-> IF r.exc # NoExc /\ ~Catches(RefreshExcept, r.exc) THEN r.exc ELSE NoExc]

\* load_chrome_cookies (constructor): the last matching cookie's value wins
RECURSIVE LoadLoop(_, _, _)
LoadLoop(cookies, i, st) ==
    IF i > Len(cookies) THEN st
    ELSE LET c == cookies[i] IN
         LoadLoop(cookies, i + 1,
                  [jar |-> JarSet(st.jar, c),
                   session_key |-> IF IsSessionKeyName(c.name) THEN c.value
                                   ELSE st.session_key])

NoKey == ""

LoadChromeCookies(all, readFails) ==
    IF readFails THEN [s |-> DefaultKey, jar |-> {}]
    ELSE LET st == LoadLoop(OUCookies(all), 1, [jar |-> {}, session_key |-> NoKey]) IN
         [s |-> IF st.session_key # NoKey THEN st.session_key ELSE DefaultKey,
          jar |-> st.jar]

-----------------------------------------------------------------------------
(* Time *)

TicksPerSec == 2
TicksPerDay == 86400 * TicksPerSec

\* self.experiment_start, 2025-08-11 11:00:00 UTC; the clock counts from it
ExperimentStart == 0

\* 11:00 UTC is 12:00 at the fixed UTC+1 display offset
DisplayOffset == 12 * 3600 * TicksPerSec

\* Python's int(): truncation toward zero
PyIntFloor(a, b) == a \div b
PyInt(a, b) == IF a >= 0 THEN a \div b ELSE -((-a) \div b)

\* int((current_time - self.experiment_start).total_seconds())
ElapsedSecondsReversed(t) == PyInt(ExperimentStart - t, TicksPerSec)
ElapsedSeconds(t) == PyInt(t - ExperimentStart, TicksPerSec)

\* strftime("%d/%m") of the instant at the display offset: the calendar day,
\* counted from the day of the experiment start
DateFormatted(t) == (t - ExperimentStart + DisplayOffset) \div TicksPerDay

\* Python's round(): the nearest multiple, ties to the even one
RoundDiv(a, b) ==
    LET q == a \div b
        r == a % b
    IN  IF 2 * r < b THEN q
        ELSE IF 2 * r > b THEN q + 1
        ELSE IF q % 2 = 0 THEN q ELSE q + 1

-----------------------------------------------------------------------------
(* JSON documents.  A node is [t, s, n, items]: its type, its text when a  *)
(* string, its value in 1/10000 when a number (0/1 when a boolean) and its *)
(* string elements when a list.  A document gives the node at each path    *)
(* the code looks at; a missing key is the node of type "absent".          *)

Node(t, s, n, items) == [t |-> t, s |-> s, n |-> n, items |-> items]
Absent  == Node("absent", "", 0, {})
JNull   == Node("null", "", 0, {})
JObj    == Node("obj", "", 0, {})
JNum(n) == Node("num", "", n, {})
JStr(s) == Node("str", s, 0, {})
JList(items) == Node("list", "", 0, items)
JTrue   == Node("bool", "", 1, {})
JFalse  == Node("bool", "", 0, {})

Doc(root, ok, dat, ext, run, temp) ==
    [root |-> root, ok |-> ok, data |-> dat, extension |-> ext, running |-> run,
     temperature |-> temp]

\* {"ok": {"data": {...}}} with the given fields
DataDoc(ext, run, temp) == Doc(JObj, JObj, JObj, ext, run, temp)
\* a document whose 'ok' value is v and is no object with a 'data' key
OkDoc(v) == Doc(JObj, v, Absent, Absent, Absent, Absent)
\* a document whose top-level value is v and is no object with an 'ok' key
RootDoc(v) == Doc(v, Absent, Absent, Absent, Absent, Absent)

\* key in s, for the strings of the model
StrContains(key, s) == s = key

\* Python's "key in v", where child is the node under key when v is an object
PyIn(key, v, child) ==
    CASE v.t = "obj"  -> [exc |-> NoExc, val |-> child.t # "absent"]
      [] v.t = "list" -> [exc |-> NoExc, val |-> key \in v.items]
      [] v.t = "str"  -> [exc |-> NoExc, val |-> StrContains(key, v.s)]
      [] OTHER        -> [exc |-> "TypeError", val |-> FALSE]

\* Python's v[key] with a string key: the exception it raises, if any
PyGetItemExc(v, child) ==
    CASE v.t = "obj" -> IF child.t = "absent" THEN "KeyError" ELSE NoExc
      [] OTHER       -> "TypeError"

\* Python's v.get(key, default): the exception it raises, if any
PyGetExc(v) == IF v.t = "obj" THEN NoExc ELSE "AttributeError"

IsNumber(v) == v.t \in {"num", "bool"}

\* round(x, 3) and format(x, ".1f"): the exception each raises, if any
PyRoundExc(v) == IF IsNumber(v) THEN NoExc ELSE "TypeError"
PyFormatFloatExc(v) ==
    IF IsNumber(v) THEN NoExc ELSE IF v.t = "str" THEN "ValueError" ELSE "TypeError"

-----------------------------------------------------------------------------
(* Samples *)

\* original_length_mm as main() passes it
OriginalLengthMm == 50

HttpStatus(code) == [isInt |-> TRUE, int |-> code, str |-> ""]
ErrorStatus(error_type) == [isInt |-> FALSE, int |-> 0, str |-> error_type]

\* the prefix of f"ERROR_{error_type}"
ErrorTag(error_type) ==
    CASE error_type = "REQUEST_ERROR"    -> "ERROR_REQUEST_ERROR"
      [] error_type = "JSON_ERROR"       -> "ERROR_JSON_ERROR"
      [] error_type = "API_FORMAT_ERROR" -> "ERROR_API_FORMAT_ERROR"
      [] error_type = "FETCH_ERROR"      -> "ERROR_FETCH_ERROR"

\* create_error_record(error_type), called at instant t
CreateErrorRecord(error_type, t) ==
    [date                |-> DateFormatted(t),
     elapsed_seconds     |-> ElapsedSeconds(t),
     change_in_length_mm |-> 0,
     strain_percent      |-> 0,
     running             |-> JFalse,
     temperature         |-> JNum(0),
     status_code         |-> ErrorStatus(ErrorTag(error_type))]

\* sensor_data.get(key, default)
GetOr(v, default) == IF v.t = "absent" THEN default ELSE v

\* round(extension_mm, 3), in 1/1000 mm
ChangeInLength(ext) == IF ext.t = "bool" THEN ext.n * 1000 ELSE RoundDiv(ext.n, 10)

\* round((change_in_length / self.original_length_mm) * 100, 3), in 1/1000 percent
StrainFraction(change) == RoundDiv(change, OriginalLengthMm)
StrainPercent(change) == RoundDiv(change * 100, OriginalLengthMm)

\* the dictionary built on the success path, at instant t
SuccessRecord(doc, status, t) ==
    LET change == ChangeInLength(GetOr(doc.extension, JNum(0))) IN
    [date                |-> DateFormatted(t),
     elapsed_seconds     |-> ElapsedSeconds(t),
     change_in_length_mm |-> change,
     strain_percent      |-> StrainPercent(change),
     running             |-> GetOr(doc.running, JFalse),
     temperature         |-> GetOr(doc.temperature, JNum(0)),
     status_code         |-> HttpStatus(status)]

IsErrorSample(sample) == ~sample.status_code.isInt

-----------------------------------------------------------------------------
(* fetch_sensor_data *)

\* What the transport gives for one request: h.exc when the request raises,
\* else a response with a status and a body that parses to h.doc or does not
Transport(exc) == [exc |-> exc, status |-> 0, parseable |-> FALSE, doc |-> RootDoc(JNull)]
Response(status, doc) == [exc |-> NoExc, status |-> status, parseable |-> TRUE, doc |-> doc]
Unparseable(status) == [exc |-> NoExc, status |-> status, parseable |-> FALSE, doc |-> RootDoc(JNull)]

\* response.raise_for_status(): raises HTTPError for 400 <= status < 600
RaiseForStatusServerOnly(status) == 500 <= status /\ status < 600
RaiseForStatus(status) == 400 <= status /\ status < 600

\* The outcome of a block: the exception it raises, or what it returns
Raises(exc) == [exc |-> exc, ret |-> "none"]
Returns(ret) == [exc |-> NoExc, ret |-> ret]

\* The success branch, from sensor_data = json_data['ok']['data'] on
SuccessBranch(doc) ==
    IF PyGetExc(doc.data) # NoExc THEN Raises(PyGetExc(doc.data))
    ELSE IF PyRoundExc(GetOr(doc.extension, JNum(0))) # NoExc
         THEN Raises(PyRoundExc(GetOr(doc.extension, JNum(0))))
    ELSE IF PyFormatFloatExc(GetOr(doc.temperature, JNum(0))) # NoExc
         THEN Raises(PyFormatFloatExc(GetOr(doc.temperature, JNum(0))))
    ELSE Returns("success")

\* if 'ok' in json_data and 'data' in json_data['ok']: ... else: ...
Envelope(doc) ==
    LET in1 == PyIn("ok", doc.root, doc.ok)
        in2 == PyIn("data", doc.ok, doc.data)
    IN  IF in1.exc # NoExc THEN Raises(in1.exc)
        ELSE IF ~in1.val THEN Returns("format")
        ELSE IF PyGetItemExc(doc.root, doc.ok) # NoExc
             THEN Raises(PyGetItemExc(doc.root, doc.ok))
        ELSE IF in2.exc # NoExc THEN Raises(in2.exc)
        ELSE IF ~in2.val THEN Returns("format")
        ELSE IF PyGetItemExc(doc.ok, doc.data) # NoExc
             THEN Raises(PyGetItemExc(doc.ok, doc.data))
        ELSE SuccessBranch(doc)

\* The try block of fetch_sensor_data, after the refresh: h is what the
\* transport gives, jsonExc the class response.json() raises in this build
TryBlock(refreshRaised, h, jsonExc) ==
    IF refreshRaised # NoExc THEN Raises(refreshRaised)
    ELSE IF h.exc # NoExc THEN Raises(h.exc)
    ELSE IF RaiseForStatus(h.status) THEN Raises("HTTPError")
    ELSE IF ~h.parseable THEN Raises(jsonExc)
    ELSE Envelope(h.doc)

\* The except clauses of fetch_sensor_data, in their order
ExceptClausesNoRequest ==
    << [cls |-> "JSONDecodeError",  error_type |-> "JSON_ERROR"],
       [cls |-> "Exception",        error_type |-> "FETCH_ERROR"] >>
ExceptClausesNoCatchAll ==
    << [cls |-> "RequestException", error_type |-> "REQUEST_ERROR"],
       [cls |-> "JSONDecodeError",  error_type |-> "JSON_ERROR"] >>
ExceptClauses ==
    << [cls |-> "RequestException", error_type |-> "REQUEST_ERROR"],
       [cls |-> "JSONDecodeError",  error_type |-> "JSON_ERROR"],
       [cls |-> "Exception",        error_type |-> "FETCH_ERROR"] >>

\* The first clause that catches exc, 0 when none does
Handler(exc) ==
    LET hits == {i \in 1..Len(ExceptClauses) : Catches(ExceptClauses[i].cls, exc)}
    IN  IF hits = {} THEN 0 ELSE CHOOSE i \in hits : \A k \in hits : i <= k

NoSample == CreateErrorRecord("FETCH_ERROR", ExperimentStart)

\* fetch_sensor_data, after the refresh, with its result captured at instant
\* t: kind is "sample" (a dictionary is returned), "none" (None is returned)
\* or "raise" (exc leaves the call)
FetchResult(refreshRaised, h, jsonExc, t) ==
    LET b == TryBlock(refreshRaised, h, jsonExc) IN
    IF b.exc = NoExc
    THEN IF b.ret = "success"
         THEN [kind |-> "sample", sample |-> SuccessRecord(h.doc, h.status, t), exc |-> NoExc]
         ELSE [kind |-> "sample", sample |-> CreateErrorRecord("API_FORMAT_ERROR", t),
               exc |-> NoExc]
    ELSE IF Handler(b.exc) = 0
         THEN [kind |-> "raise", sample |-> NoSample, exc |-> b.exc]
         ELSE [kind |-> "sample",
               sample |-> CreateErrorRecord(ExceptClauses[Handler(b.exc)].error_type, t),
               exc |-> NoExc]

-----------------------------------------------------------------------------
(* The journal file *)

Line(kind, date, elapsed, change, strain) ==
    [kind |-> kind, date |-> date, elapsed |-> elapsed, change |-> change, strain |-> strain]

\* ['Date', 'Elapsed Time (s)', 'Change in Length (mm)', '% Strain']
Header == Line("header", 0, 0, 0, 0)

\* a line this program did not write
Foreign == Line("foreign", 0, 0, 0, 0)

\* [data['date'], data['elapsed_seconds'], data['change_in_length_mm'], data['strain_percent']]
Row(sample) ==
    Line("row", sample.date, sample.elapsed_seconds, sample.change_in_length_mm,
         sample.strain_percent)

\* the beginning of a row, cut off before its line end
Partial(sample) == Line("partial", sample.date, 0, 0, 0)

File(exists, lines) == [exists |-> exists, lines |-> lines]

\* init_csv_file: the header is written only when the file does not exist
InitCsvFileAlways(file) == File(TRUE, <<Header>>)
InitCsvFile(file) == IF ~file.exists THEN File(TRUE, <<Header>>) ELSE file

\* if not os.path.exists(self.output_file): the header is about to be written
WritesHeader(file) == ~file.exists

\* the record of the init_csv_file calls, after one more call that met file
NoInits == [calls |-> 0, headers |-> 0, kept |-> TRUE]
NotedInit(rec, file) ==
    [calls   |-> rec.calls + 1,
     headers |-> rec.headers + (IF WritesHeader(file) THEN 1 ELSE 0),
     kept    |-> file.exists => InitCsvFile(file) = file]

\* What the filesystem does to one append
AppendOutcomes == {"ok", "open_fails", "write_fails", "write_fails_partial"}

\* The body of the try block of save_data
SaveBodyWriteMode(file, sample, outcome) ==
    IF outcome = "ok" THEN [file |-> File(TRUE, <<Row(sample)>>), exc |-> NoExc]
    ELSE [file |-> file, exc |-> "OSError"]
SaveBody(file, sample, outcome) ==
    CASE outcome = "ok" ->
           [file |-> File(TRUE, Append(file.lines, Row(sample))), exc |-> NoExc]
      [] outcome = "open_fails" ->
           [file |-> file, exc |-> "PermissionError"]
      [] outcome = "write_fails" ->
           [file |-> File(TRUE, file.lines), exc |-> "OSError"]
      [] outcome = "write_fails_partial" ->
           [file |-> File(TRUE, Append(file.lines, Partial(sample))), exc |-> "OSError"]

\* The class the except clause of save_data names
SaveExceptNotFound == "FileNotFoundError"
SaveExcept == "Exception"

\* save_data as a whole
SaveData(file, sample, outcome) ==
    LET r == SaveBody(file, sample, outcome) IN
    [file   |-> r.file,
     failed |-> r.exc # NoExc,
     raised |-> IF r.exc # NoExc /\ ~Catches(SaveExcept, r.exc) THEN r.exc ELSE NoExc]

\* what is kept of one save_data call: the sample handed over, whether its
\* row stands in the file, the row's place, and whether the call was cut
\* short by a KeyboardInterrupt
Attempt(sample, r, interrupted) ==
    [sample      |-> sample,
     appended    |-> ~r.failed,
     raised      |-> r.raised,
     line        |-> IF r.failed THEN 0 ELSE Len(r.file.lines),
     interrupted |-> interrupted]

\* the lines of the file that are ended by a line end
IsWholeLine(line) == line.kind # "partial"
LineCount(file) == Cardinality({i \in 1..Len(file.lines) : IsWholeLine(file.lines[i])})

-----------------------------------------------------------------------------
(* Inputs *)

\* every content the browser's store can have
ChromeStates == UNION {[1..n -> Cookie] : n \in 0..MaxCookies}

\* the contents met during a run: the token cookie, before and after the
\* session rotates
RunChromes ==
    { <<MkCookie("s", "A", "learn5.Open.ac.uk")>>,
      <<MkCookie("s", "B", "learn5.Open.ac.uk")>> }

\* HTTP statuses of the final response
Statuses == {101, 200, 204, 304, 404, 500}

\* payload numbers, in 1/10000
Extensions == {0, 12550, 12346}
Temperatures == {214000}

\* bodies with the envelope {ok: {data: {...}}} whose data is an object
DataDocs ==
    {DataDoc(JNum(e), JTrue, JNum(t)) : e \in Extensions, t \in Temperatures}
    \cup {DataDoc(Absent, Absent, Absent),
          DataDoc(JStr("x"), JTrue, JNum(0)),
          DataDoc(JNull, JTrue, JNum(0)),
          DataDoc(JNum(0), JFalse, JNull),
          DataDoc(JNum(0), JNull, JStr("x")),
          DataDoc(JTrue, JStr("x"), JTrue)}

\* parseable bodies of every other shape
OtherDocs ==
    {RootDoc(v) : v \in {JObj, JNull, JNum(10000), JTrue, JStr("ok"), JStr("x"),
                         JList({}), JList({"ok"})}}
    \cup {OkDoc(v) : v \in {JObj, JNull, JNum(10000), JFalse, JStr("data"), JStr("x"),
                            JList({}), JList({"data"})}}
    \cup {Doc(JObj, JObj, v, Absent, Absent, Absent) :
            v \in {JNull, JNum(10000), JStr("x"), JList({})}}

Docs == DataDocs \cup OtherDocs

TransportExcs == {"ConnectionError", "Timeout"}

\* everything the transport can give
HttpOutcomes ==
    {Transport(e) : e \in TransportExcs}
    \cup {Unparseable(st) : st \in Statuses}
    \cup {Response(200, d) : d \in Docs}
    \cup {Response(st, d) : st \in Statuses,
                            d \in {DataDoc(JNum(0), JTrue, JNum(214000)), RootDoc(JObj)}}

\* what the transport gives during a run
RunHttpOutcomes ==
    {Transport("ConnectionError"), Unparseable(200),
     Response(200, DataDoc(JNum(0), JTrue, JNum(214000)))}

\* the faults a refresh meets during a run
RunRefreshFaults == {f \in RefreshFaults : f.at # "copy" /\ f.exc # "PermissionError"}

\* the class response.json() raises on an unparseable body, by build
JsonExcs == {"RequestsJSONDecodeError", "JSONDecodeError", "SimplejsonDecodeError"}

\* the journal file before construction
PreFiles == {File(FALSE, << >>), File(TRUE, <<Header, Line("row", 0, 0, 0, 0)>>)}

\* the journal file before construction, of every kind: absent, empty,
\* holding the header, rows, a cut-off row, or lines of another program
AllPreFiles ==
    PreFiles \cup {File(TRUE, << >>),
                   File(TRUE, <<Header>>),
                   File(TRUE, <<Foreign, Foreign>>),
                   File(TRUE, <<Header, Line("partial", 0, 0, 0, 0)>>)}

-----------------------------------------------------------------------------
(* The state after construction *)

NoRefresh ==
    [called |-> FALSE, repeat |-> FALSE, rotated |-> FALSE, fault |-> "none",
     failed |-> FALSE, raised |-> NoExc, before |-> DefaultKey, transitions |-> << >>,
     fresh |-> {}]

NoRequest == [made |-> FALSE, token |-> DefaultKey, refreshed |-> FALSE]

NoFetch ==
    [called |-> FALSE, h |-> Transport(NoExc), jsonExc |-> NoExc, kind |-> "none",
     exc |-> NoExc, sample |-> NoSample, at |-> 0]

InitWith(chromes, files, starts) ==
    /\ chrome \in chromes
    /\ \E readFails \in BOOLEAN :
         /\ form_s = LoadChromeCookies(chrome, readFails).s
         /\ jar = LoadChromeCookies(chrome, readFails).jar
    /\ refresh = NoRefresh
    /\ now \in starts
    /\ fetched = NoFetch
    /\ pc = "idle"
    /\ end_time = 0
    /\ fetch_start = 0
    /\ fetch_count = 0
    /\ sleep_time = 0
    /\ data = [kind |-> "none", sample |-> NoSample]
    /\ \E pre \in files :
         /\ journal = InitCsvFile(pre)
         /\ created = ~pre.exists
         /\ inits = NotedInit(NoInits, pre)
    /\ sent = NoRequest
    /\ exit = "none"
    /\ history = << >>
    /\ summaries = << >>

Init == InitWith({<<MkCookie("s", "A", "learn5.Open.ac.uk")>>}, PreFiles,
             {ExperimentStart - MaxEarly, ExperimentStart})

-----------------------------------------------------------------------------
(* The credential refresh *)

\* update_session_key_from_cookies, meeting fault
DoRefresh(fault) ==
    LET r == UpdateSessionKeyFromCookies(chrome, form_s, jar, fault) IN
    /\ form_s' = r.s
    /\ jar' = r.jar
    /\ UNCHANGED chrome

\* the same, with the call's outcome kept in refresh
NotedRefresh(fault) ==
    LET r == UpdateSessionKeyFromCookies(chrome, form_s, jar, fault) IN
    /\ DoRefresh(fault)
    /\ refresh' = [called      |-> TRUE,
                   repeat      |-> refresh.called /\ ~refresh.failed /\ ~refresh.rotated,
                   rotated     |-> FALSE,
                   fault       |-> fault.at,
                   failed      |-> r.failed,
                   raised      |-> r.raised,
                   before      |-> form_s,
                   transitions |-> r.transitions,
                   fresh       |-> IF refresh.rotated THEN refresh.fresh ELSE {}]

\* a caller invokes update_session_key_from_cookies
RefreshCall ==
    /\ \E fault \in RefreshFaults : NotedRefresh(fault)
    /\ UNCHANGED <<now, fetched, sent>>
    /\ UNCHANGED fileVars
    /\ UNCHANGED loopVars

\* the values of the cookies of all that the refresh takes for the token
TokenValues(all) ==
    {all[i].value : i \in {k \in 1..Len(all) : /\ IsOUDomain(all[k].domain)
                                                /\ IsSessionKeyName(all[k].name)}}

\* the browser changes its cookies (the session rotates, the user logs out);
\* fresh keeps the token values the change has brought
Rotate(chromes) ==
    /\ chrome' \in chromes \ {chrome}
    /\ refresh' = [refresh EXCEPT !.rotated = TRUE,
                                  !.fresh = TokenValues(chrome') \ TokenValues(chrome)]
    /\ UNCHANGED <<form_s, jar, now, fetched, sent>>
    /\ UNCHANGED fileVars
    /\ UNCHANGED loopVars

BrowserRotate == Rotate(ChromeStates)

-----------------------------------------------------------------------------
(* The fetch *)

\* what fetch_sensor_data gives when its refresh meets fault, the transport
\* gives h and the call takes d ticks
FetchOutcome(fault, h, jsonExc, d) ==
    FetchResult(UpdateSessionKeyFromCookies(chrome, form_s, jar, fault).raised,
                h, jsonExc, now + d)

\* response = self.session.post(self.url, ..., data=self.form_data): the
\* request made once the refresh, meeting fault, has returned
Request(fault) ==
    LET r == UpdateSessionKeyFromCookies(chrome, form_s, jar, fault) IN
    [made |-> TRUE, token |-> r.s, refreshed |-> ~r.failed]

\* a caller invokes fetch_sensor_data
FetchCall ==
    /\ ~fetched.called
    /\ \E fault \in RefreshFaults, h \in HttpOutcomes, jsonExc \in JsonExcs,
          d \in 0..MaxStep :
         /\ NotedRefresh(fault)
         /\ sent' = IF UpdateSessionKeyFromCookies(chrome, form_s, jar, fault).raised = NoExc
                    THEN Request(fault) ELSE sent
         /\ now' = now + d
         /\ fetched' = [called  |-> TRUE,
                        h       |-> h,
                        jsonExc |-> IF h.exc = NoExc /\ ~h.parseable /\ ~RaiseForStatus(h.status)
                                    THEN jsonExc ELSE NoExc,
                        kind    |-> FetchOutcome(fault, h, jsonExc, d).kind,
                        exc     |-> FetchOutcome(fault, h, jsonExc, d).exc,
                        sample  |-> FetchOutcome(fault, h, jsonExc, d).sample,
                        at      |-> now + d]
    /\ UNCHANGED fileVars
    /\ UNCHANGED loopVars

\* fetch_sensor_data is called once more, as every cycle calls it
CycleFetch ==
    /\ \E fault \in RunRefreshFaults, h \in RunHttpOutcomes :
         LET res == FetchOutcome(fault, h, "RequestsJSONDecodeError", 0) IN
         /\ NotedRefresh(fault)
         /\ sent' = IF UpdateSessionKeyFromCookies(chrome, form_s, jar, fault).raised = NoExc
                    THEN Request(fault) ELSE sent
         /\ fetched' = [called  |-> TRUE,
                        h       |-> h,
                        jsonExc |-> IF h.exc = NoExc /\ ~h.parseable
                                    THEN "RequestsJSONDecodeError" ELSE NoExc,
                        kind    |-> res.kind,
                        exc     |-> res.exc,
                        sample  |-> res.sample,
                        at      |-> now]
    /\ UNCHANGED now
    /\ UNCHANGED fileVars
    /\ UNCHANGED loopVars

-----------------------------------------------------------------------------
(* run_for_duration *)

Max(a, b) == IF a >= b THEN a ELSE b

\* run_for_duration is called: start_time, end_time, fetch_count
Start ==
    /\ pc = "idle"
    /\ end_time' = now + RunTicks
    /\ fetch_count' = 0
    /\ pc' = "check"
    /\ UNCHANGED <<now, fetched, sent, fetch_start, sleep_time, data, exit, summaries>>
    /\ UNCHANGED credVars
    /\ UNCHANGED fileVars

\* while datetime.now() < end_time: fetch_start = time.time()
LoopEnter ==
    /\ pc = "check"
    /\ now < end_time
    /\ fetch_start' = now
    /\ pc' = "fetch"
    /\ UNCHANGED <<now, fetched, sent, end_time, fetch_count, sleep_time, data, exit, summaries>>
    /\ UNCHANGED credVars
    /\ UNCHANGED fileVars

\* the loop condition is false
LoopExitByCount ==
    /\ pc = "check"
    /\ fetch_count >= RunTicks \div IntervalTicks
    /\ exit' = "deadline"
    /\ pc' = "finally"
    /\ UNCHANGED <<now, fetched, sent, end_time, fetch_start, fetch_count, sleep_time, data,
                   summaries>>
    /\ UNCHANGED credVars
    /\ UNCHANGED fileVars
LoopExit ==
    /\ pc = "check"
    /\ ~(now < end_time)
    /\ exit' = "deadline"
    /\ pc' = "finally"
    /\ UNCHANGED <<now, fetched, sent, end_time, fetch_start, fetch_count, sleep_time, data,
                   summaries>>
    /\ UNCHANGED credVars
    /\ UNCHANGED fileVars

\* data = self.fetch_sensor_data()
Fetch ==
    /\ pc = "fetch"
    /\ \E fault \in RunRefreshFaults, h \in RunHttpOutcomes, jsonExc \in JsonExcs,
          d \in 0..MaxStep :
         LET res == FetchOutcome(fault, h, jsonExc, d) IN
         /\ DoRefresh(fault)
         /\ sent' = IF UpdateSessionKeyFromCookies(chrome, form_s, jar, fault).raised = NoExc
                    THEN Request(fault) ELSE sent
         /\ now' = now + d
         /\ IF res.kind = "raise"
            THEN /\ pc' = "finally"
                 /\ exit' = "exception"
                 /\ data' = data
            ELSE /\ pc' = "save"
                 /\ exit' = exit
                 /\ data' = [kind |-> res.kind, sample |-> res.sample]
    /\ UNCHANGED <<refresh, fetched, end_time, fetch_start, fetch_count, sleep_time,
                   summaries>>
    /\ UNCHANGED fileVars

\* if data: self.save_data(data)
Save ==
    /\ pc = "save"
    /\ IF data.kind = "sample"
       THEN \E outcome \in AppendOutcomes :
              LET r == SaveData(journal, data.sample, outcome) IN
              /\ journal' = r.file
              /\ history' = Append(history, Attempt(data.sample, r, FALSE))
              /\ IF r.raised # NoExc
                 THEN pc' = "finally" /\ exit' = "exception"
                 ELSE pc' = "count" /\ exit' = exit
       ELSE /\ pc' = "count"
            /\ UNCHANGED <<journal, history, exit>>
    /\ UNCHANGED <<now, fetched, sent, end_time, fetch_start, fetch_count, sleep_time, data,
                   created, inits, summaries>>
    /\ UNCHANGED credVars

\* fetch_count += 1; sleep_time = max(0, interval_seconds - fetch_duration)
\* (the progress line logged every 120 cycles changes no state)
CountIfAppended ==
    /\ pc = "count"
    /\ fetch_count' = IF history # << >> /\ history[Len(history)].appended
                      THEN fetch_count + 1 ELSE fetch_count
    /\ sleep_time' = Max(0, IntervalTicks - (now - fetch_start))
    /\ pc' = IF sleep_time' > 0 THEN "sleep" ELSE "check"
    /\ UNCHANGED <<now, fetched, sent, end_time, fetch_start, data, exit, summaries>>
    /\ UNCHANGED credVars
    /\ UNCHANGED fileVars
CountFixedSleep ==
    /\ pc = "count"
    /\ fetch_count' = fetch_count + 1
    /\ sleep_time' = IntervalTicks
    /\ pc' = "sleep"
    /\ UNCHANGED <<now, fetched, sent, end_time, fetch_start, data, exit, summaries>>
    /\ UNCHANGED credVars
    /\ UNCHANGED fileVars
Count ==
    /\ pc = "count"
    /\ fetch_count' = fetch_count + 1
    /\ sleep_time' = Max(0, IntervalTicks - (now - fetch_start))
    /\ pc' = IF sleep_time' > 0 THEN "sleep" ELSE "check"
    /\ UNCHANGED <<now, fetched, sent, end_time, fetch_start, data, exit, summaries>>
    /\ UNCHANGED credVars
    /\ UNCHANGED fileVars

\* time.sleep(sleep_time): at least sleep_time passes
Sleep ==
    /\ pc = "sleep"
    /\ \E over \in 0..1 : now' = now + sleep_time + over
    /\ pc' = "check"
    /\ UNCHANGED <<fetched, sent, end_time, fetch_start, fetch_count, sleep_time, data, exit,
                   summaries>>
    /\ UNCHANGED credVars
    /\ UNCHANGED fileVars

\* KeyboardInterrupt arrives while the loop runs
Interrupt ==
    /\ pc \in {"check", "fetch", "save", "count", "sleep"}
    /\ exit' = "interrupt"
    /\ pc' = "finally"
    /\ UNCHANGED <<now, fetched, sent, end_time, fetch_start, fetch_count, sleep_time, data,
                   summaries>>
    /\ UNCHANGED credVars
    /\ UNCHANGED fileVars

\* KeyboardInterrupt arrives inside fetch_sensor_data, whose except clauses
\* do not catch it: the refresh has gone as far as it went, the request has
\* been sent or not
FetchInterrupted ==
    /\ pc = "fetch"
    /\ \E fault \in RunRefreshFaults, posted \in BOOLEAN, d \in 0..MaxStep :
         /\ DoRefresh(fault)
         /\ sent' = IF posted THEN Request(fault) ELSE sent
         /\ now' = now + d
    /\ exit' = "interrupt"
    /\ pc' = "finally"
    /\ UNCHANGED <<refresh, fetched, end_time, fetch_start, fetch_count, sleep_time, data,
                   summaries>>
    /\ UNCHANGED fileVars

\* KeyboardInterrupt arrives inside save_data, whose except clause does not
\* catch it: nothing, a part of the row or the whole row is in the file
SaveInterrupted ==
    /\ pc = "save"
    /\ data.kind = "sample"
    /\ \E outcome \in AppendOutcomes :
         LET r == SaveBody(journal, data.sample, outcome) IN
         /\ journal' = r.file
         /\ history' = Append(history,
                              Attempt(data.sample,
                                      [file |-> r.file, failed |-> r.exc # NoExc,
                                       raised |-> "KeyboardInterrupt"], TRUE))
    /\ exit' = "interrupt"
    /\ pc' = "finally"
    /\ UNCHANGED <<now, fetched, sent, end_time, fetch_start, fetch_count, sleep_time, data,
                   created, inits, summaries>>
    /\ UNCHANGED credVars

\* KeyboardInterrupt arrives inside time.sleep: a part of sleep_time has passed
SleepInterrupted ==
    /\ pc = "sleep"
    /\ \E part \in 0..sleep_time : now' = now + part
    /\ exit' = "interrupt"
    /\ pc' = "finally"
    /\ UNCHANGED <<fetched, sent, end_time, fetch_start, fetch_count, sleep_time, data,
                   summaries>>
    /\ UNCHANGED credVars
    /\ UNCHANGED fileVars

\* finally: the two summary lines
FinallyOnInterruptOnly ==
    /\ pc = "finally"
    /\ summaries' = IF exit = "interrupt"
                    THEN Append(summaries, [total |-> fetch_count, how |-> exit])
                    ELSE summaries
    /\ pc' = "done"
    /\ UNCHANGED <<now, fetched, sent, end_time, fetch_start, fetch_count, sleep_time, data, exit>>
    /\ UNCHANGED credVars
    /\ UNCHANGED fileVars
Finally ==
    /\ pc = "finally"
    /\ summaries' = Append(summaries, [total |-> fetch_count, how |-> exit])
    /\ pc' = "done"
    /\ UNCHANGED <<now, fetched, sent, end_time, fetch_start, fetch_count, sleep_time, data, exit>>
    /\ UNCHANGED credVars
    /\ UNCHANGED fileVars

\* the browser changes its cookies while the run goes on
RunRotate == pc = "sleep" /\ Rotate(RunChromes)

-----------------------------------------------------------------------------
(* The journal, called directly *)

\* a caller invokes init_csv_file again
InitCsvFileCall ==
    /\ inits.calls < MaxInits
    /\ journal' = InitCsvFile(journal)
    /\ inits' = NotedInit(inits, journal)
    /\ UNCHANGED <<created, history, now, fetched, sent, refresh>>
    /\ UNCHANGED <<chrome, form_s, jar>>
    /\ UNCHANGED loopVars

\* the samples handed to save_data: an error record and a success record
SavedSamples(t) ==
    {CreateErrorRecord("REQUEST_ERROR", t),
     SuccessRecord(DataDoc(JNum(12550), JTrue, JNum(214000)), 200, t)}

\* a caller invokes save_data
SaveCall ==
    /\ Len(history) < MaxSaves
    /\ \E sample \in SavedSamples(now), outcome \in AppendOutcomes :
         LET r == SaveData(journal, sample, outcome) IN
         /\ journal' = r.file
         /\ history' = Append(history, Attempt(sample, r, FALSE))
    /\ UNCHANGED <<created, inits, now, fetched, sent, refresh>>
    /\ UNCHANGED <<chrome, form_s, jar>>
    /\ UNCHANGED loopVars

-----------------------------------------------------------------------------
(* Specifications *)

\* a whole run of the monitor
Next ==
    \/ Start
    \/ LoopEnter
    \/ LoopExit
    \/ Fetch
    \/ Save
    \/ Count
    \/ Sleep
    \/ Interrupt
    \/ FetchInterrupted
    \/ SaveInterrupted
    \/ SleepInterrupted
    \/ Finally
    \/ RunRotate

Spec == Init /\ [][Next]_vars

\* the same run when the process keeps being scheduled: the calls it makes
\* return, the sleep ends, the clock it reads moves on; an interrupt and a
\* change of the browser's cookies may come or not
Fairness ==
    /\ WF_vars(Start)
    /\ WF_vars(LoopEnter)
    /\ WF_vars(LoopExit)
    /\ WF_vars(Fetch)
    /\ WF_vars(Save)
    /\ WF_vars(Count)
    /\ WF_vars(Sleep)
    /\ WF_vars(Finally)
SpecLive == Spec /\ Fairness

\* calls of update_session_key_from_cookies against every cookie store
InitRefresh == InitWith(ChromeStates, {File(FALSE, << >>)}, {ExperimentStart})
NextRefresh == RefreshCall \/ BrowserRotate
SpecRefresh == InitRefresh /\ [][NextRefresh]_vars

\* calls of init_csv_file and save_data in any order, on every kind of
\* file the constructor can meet
InitJournal == InitWith({<<MkCookie("s", "A", "learn5.Open.ac.uk")>>}, AllPreFiles,
                        {ExperimentStart})
NextJournal == InitCsvFileCall \/ SaveCall
SpecJournal == InitJournal /\ [][NextJournal]_vars

\* fetch_sensor_data called cycle after cycle while the browser's cookies
\* change, against every cookie store
NextCycles == CycleFetch \/ BrowserRotate
SpecCycles == InitRefresh /\ [][NextCycles]_vars

\* calls of fetch_sensor_data against everything the transport can give
InitFetch ==
    InitWith(RunChromes, {File(FALSE, << >>)},
             (ExperimentStart - MaxEarly) .. (ExperimentStart + 1))
NextFetch == FetchCall
SpecFetch == InitFetch /\ [][NextFetch]_vars

-----------------------------------------------------------------------------
(* Properties of fetch_sensor_data, under SpecFetch *)

ErrorTypes == {"REQUEST_ERROR", "JSON_ERROR", "API_FORMAT_ERROR", "FETCH_ERROR"}

StatusIs(sample, error_type) == sample.status_code = ErrorStatus(ErrorTag(error_type))

Is2xx(status) == 200 <= status /\ status < 300

\* C1: fetch_sensor_data never raises to its caller and never returns None:
\* whatever the refresh, the request, the parse and the envelope check give,
\* it returns a success Sample or an error Sample built by create_error_record.
C1_FetchReturnsOneSample ==
    fetched.called =>
        /\ fetched.kind = "sample"
        /\ fetched.exc = NoExc
        /\ \/ fetched.sample.status_code.isInt
           \/ \E e \in ErrorTypes : fetched.sample = CreateErrorRecord(e, fetched.at)

\* a fetch whose envelope check itself raised, and one whose refresh failed
C1_Witness ==
    /\ fetched.called
    /\ refresh.failed
    /\ fetched.h.parseable
    /\ StatusIs(fetched.sample, "FETCH_ERROR")

\* C3: a transport failure (connection error, timeout) gives the Sample
\* tagged ERROR_REQUEST_ERROR with zero length change, zero strain, running
\* false and temperature 0.
C3_TransportFailureSample ==
    (fetched.called /\ fetched.h.exc \in TransportExcs) =>
        /\ fetched.kind = "sample"
        /\ StatusIs(fetched.sample, "REQUEST_ERROR")
        /\ fetched.sample.change_in_length_mm = 0
        /\ fetched.sample.strain_percent = 0
        /\ fetched.sample.running = JFalse
        /\ fetched.sample.temperature = JNum(0)

C3_Witness == fetched.called /\ fetched.h.exc = "Timeout" /\ fetched.kind = "sample"

\* C6 as stated: every response whose status is outside 200-299 gives the
\* Sample tagged ERROR_REQUEST_ERROR.
C6_Non2xxIsRequestError ==
    (fetched.called /\ fetched.h.exc = NoExc /\ ~Is2xx(fetched.h.status)) =>
        /\ fetched.kind = "sample"
        /\ StatusIs(fetched.sample, "REQUEST_ERROR")

\* C6 as amended: every response whose status is in 400-599 gives the Sample
\* tagged ERROR_REQUEST_ERROR, and no success Sample carries such a status.
C6_ErrorStatusIsRequestError ==
    /\ (fetched.called /\ fetched.h.exc = NoExc
          /\ 400 <= fetched.h.status /\ fetched.h.status < 600) =>
            /\ fetched.kind = "sample"
            /\ StatusIs(fetched.sample, "REQUEST_ERROR")
    /\ (fetched.called /\ fetched.kind = "sample" /\ fetched.sample.status_code.isInt) =>
            ~(400 <= fetched.sample.status_code.int /\ fetched.sample.status_code.int < 600)

C6_Witness ==
    /\ fetched.called
    /\ fetched.h.status = 404
    /\ fetched.h.parseable
    /\ fetched.h.doc \in DataDocs
    /\ StatusIs(fetched.sample, "REQUEST_ERROR")

\* C7: a 2xx response whose body is not JSON gives the Sample tagged
\* ERROR_JSON_ERROR.
C7_UnparseableIsJsonError ==
    (fetched.called /\ fetched.h.exc = NoExc /\ Is2xx(fetched.h.status)
       /\ ~fetched.h.parseable) =>
        /\ fetched.kind = "sample"
        /\ StatusIs(fetched.sample, "JSON_ERROR")

\* the shapes C8 lists: no object at the top, no 'ok', 'ok' no object, no 'data'
OutsideEnvelope(doc) ==
    \/ doc.root.t # "obj"
    \/ doc.ok.t = "absent"
    \/ doc.ok.t # "obj"
    \/ doc.data.t = "absent"

\* C8: a 2xx response whose body parses but is not of the shape
\* {ok: {data: ...}} gives the Sample tagged ERROR_API_FORMAT_ERROR.
C8_OtherShapeIsFormatError ==
    (fetched.called /\ fetched.h.exc = NoExc /\ Is2xx(fetched.h.status)
       /\ fetched.h.parseable /\ OutsideEnvelope(fetched.h.doc)) =>
        /\ fetched.kind = "sample"
        /\ StatusIs(fetched.sample, "API_FORMAT_ERROR")

-----------------------------------------------------------------------------
(* Properties of update_session_key_from_cookies, under SpecRefresh *)

\* C4: a second refresh in a row over unchanged cookies leaves the stored
\* token as it was and logs no 'Session key updated' line.
C4_RefreshIdempotent ==
    (refresh.called /\ refresh.repeat /\ ~refresh.failed) =>
        /\ form_s = refresh.before
        /\ refresh.transitions = << >>

\* C5: a refresh never raises, and one whose cookie read or cookie copy
\* failed leaves the stored token as it was before the call.
C5_FailedRefreshKeepsToken ==
    refresh.called =>
        /\ refresh.raised = NoExc
        /\ refresh.failed => form_s = refresh.before

-----------------------------------------------------------------------------
(* Properties of the journal and the poll loop, under Spec *)

\* the save_data calls that failed
FailedAppends == {i \in 1..Len(history) : ~history[i].appended /\ ~history[i].interrupted}

\* no cycle is between its save_data call and its count
AtCycleBoundary == Len(history) = fetch_count

\* C2 as stated: after N cycles on a journal the constructor created, the
\* file has N + 1 lines, whatever fetches and appends failed.
C2_LinesAreCyclesPlusOne ==
    (created /\ AtCycleBoundary) => LineCount(journal) = fetch_count + 1

\* C2 as amended: after N cycles on a journal the constructor created, the
\* file has 1 + N - F whole lines, F being the number of appends that
\* failed; so N + 1 lines when no append failed.
C2_LinesAreAppendsPlusOne ==
    (created /\ AtCycleBoundary) =>
        LineCount(journal) = 1 + fetch_count - Cardinality(FailedAppends)

C2_Witness ==
    /\ created
    /\ AtCycleBoundary
    /\ fetch_count = 2
    /\ history[1].appended
    /\ ~history[2].appended
    /\ IsErrorSample(history[1].sample)

\* the row of the i-th save_data call, as it stands in the journal
RowOf(i) == journal.lines[history[i].line]

\* C9: the row of a cycle whose fetch failed is zero-valued and tagged with
\* the error kind: it differs, in a column other than the two time columns,
\* from the row of every successful cycle.
C9_ErrorRowsAreTagged ==
    \A i, j \in 1..Len(history) :
        (/\ history[i].appended
         /\ history[j].appended
         /\ IsErrorSample(history[i].sample)
         /\ ~IsErrorSample(history[j].sample)) =>
            /\ RowOf(i).change = 0
            /\ RowOf(i).strain = 0
            /\ RowOf(i) # [RowOf(j) EXCEPT !.date = RowOf(i).date,
                                           !.elapsed = RowOf(i).elapsed]

\* C10: a failed append does not end the loop: save_data returns normally,
\* the cycle is counted, and the loop is left only at the deadline or by an
\* interrupt.
C10_FailedAppendDoesNotEndLoop ==
    \A i \in FailedAppends :
        /\ history[i].raised = NoExc
        /\ exit # "exception"
        /\ fetch_count >= i \/ (i = Len(history) /\ pc = "count") \/ exit = "interrupt"
        /\ exit = "deadline" => now >= end_time

C10_Witness ==
    /\ Len(history) = 2
    /\ ~history[1].appended
    /\ history[2].appended
    /\ fetch_count = 2
    /\ exit = "deadline"

-----------------------------------------------------------------------------
(* Properties of the journal file, under SpecJournal *)

HeaderLines == {i \in 1..Len(journal.lines) : journal.lines[i] = Header}

\* C11: init_csv_file is idempotent: however often it is called, on a file
\* that was absent or present with any content, the header is written at
\* most once, and a file that exists has the same content after a call as
\* before it.
C11_InitIsIdempotent ==
    /\ inits.headers <= 1
    /\ inits.kept
    /\ journal.exists
    /\ created => HeaderLines = {1}

C11_Witness ==
    /\ inits.calls = MaxInits
    /\ created
    /\ Len(history) = 1
    /\ history[1].appended
    /\ Len(journal.lines) = 2

IsPrefix(a, b) == Len(a) <= Len(b) /\ SubSeq(b, 1, Len(a)) = a

\* C12: the journal is append-only: every step of init_csv_file and of
\* save_data, failed appends included, leaves the file in existence with its
\* earlier content as a prefix of its content.
C12_JournalIsAppendOnly ==
    [][journal.exists /\ IsPrefix(journal.lines, journal'.lines)]_vars

C12_Witness ==
    /\ ~created
    /\ inits.calls >= 2
    /\ Len(history) = 2
    /\ ~history[1].appended
    /\ history[2].appended
    /\ journal.lines[1] = Foreign
    /\ Len(journal.lines) >= 3

-----------------------------------------------------------------------------
(* Properties of the elapsed time, under SpecFetch *)

\* ticks from the experiment start to the instant the Sample was captured
SinceStart == fetched.at - ExperimentStart

\* C13 as stated: the elapsed_seconds of every Sample, success or error, is
\* the floor of the seconds from the experiment start to the capture
\* instant, also when the capture instant is before the experiment start.
C13_ElapsedIsFloor ==
    (fetched.called /\ fetched.kind = "sample") =>
        fetched.sample.elapsed_seconds = SinceStart \div TicksPerSec

\* C13 as amended: elapsed_seconds is the seconds from the experiment start
\* to the capture instant with the fraction dropped: the floor at and after
\* the experiment start, the ceiling before it.
C13_ElapsedIsTruncated ==
    (fetched.called /\ fetched.kind = "sample") =>
        LET e == fetched.sample.elapsed_seconds IN
        IF SinceStart >= 0
        THEN e * TicksPerSec <= SinceStart /\ SinceStart < (e + 1) * TicksPerSec
        ELSE (e - 1) * TicksPerSec < SinceStart /\ SinceStart <= e * TicksPerSec

C13_Witness ==
    /\ fetched.called
    /\ fetched.kind = "sample"
    /\ IsErrorSample(fetched.sample)
    /\ SinceStart < 0
    /\ SinceStart % TicksPerSec # 0
    /\ fetched.sample.elapsed_seconds = 0

-----------------------------------------------------------------------------
(* Properties of the elapsed time, under Spec *)

\* C14: within one run the elapsed_seconds of the Samples of consecutive
\* cycles, and of the rows they append, never decrease, whether the cycles
\* succeed or fail.
C14_ElapsedNeverDecreases ==
    /\ \A i, j \in 1..Len(history) :
          i < j =>
            /\ history[i].sample.elapsed_seconds <= history[j].sample.elapsed_seconds
            /\ (history[i].appended /\ history[j].appended) =>
                  /\ history[i].line < history[j].line
                  /\ RowOf(i).elapsed <= RowOf(j).elapsed
    /\ (pc = "save" /\ data.kind = "sample") =>
          \A i \in 1..Len(history) :
            history[i].sample.elapsed_seconds <= data.sample.elapsed_seconds

C14_Witness ==
    /\ Len(history) = 2
    /\ history[1].appended
    /\ history[2].appended
    /\ IsErrorSample(history[1].sample)
    /\ ~IsErrorSample(history[2].sample)
    /\ RowOf(1).elapsed < 0
    /\ RowOf(2).elapsed = 0

-----------------------------------------------------------------------------
(* Properties of the pacing, under Spec *)

\* the time the body of the cycle has taken when the sleep is computed
BodyTicks == now - fetch_start

-----------------------------------------------------------------------------
(* Properties of the end of the run, under Spec *)

\* the Samples fetched and handed to save_data so far
HandedToJournal == Len(history)

\* C16 as stated: however the run ends, the summary is logged exactly once
\* and the count it reports is the number of cycles whose Sample was fetched
\* and handed to the journal.
C16_SummaryCountsHandedSamples ==
    /\ pc # "done" => summaries = << >>
    /\ pc = "done" =>
          /\ Len(summaries) = 1
          /\ summaries[1].total = HandedToJournal

\* C16 as amended: however the run ends, the summary is logged exactly once
\* and reports the cycles counted so far: the number of Samples handed to
\* the journal when the run ends at the deadline, that number or one less
\* when it is ended by an interrupt or an exception, which can fall between
\* the hand-over and the count.
C16_SummaryCountsCountedCycles ==
    /\ pc # "done" => summaries = << >>
    /\ pc = "done" =>
          /\ Len(summaries) = 1
          /\ summaries[1].how = "deadline" => summaries[1].total = HandedToJournal
          /\ summaries[1].how # "deadline" =>
                summaries[1].total \in {HandedToJournal, HandedToJournal - 1}
          /\ \A i \in 1..Len(history) :
                history[i].interrupted => (i = Len(history) /\ summaries[1].total = i - 1)

\* the interrupt fell between save_data's return and the count
C16_Witness ==
    /\ pc = "done"
    /\ exit = "interrupt"
    /\ Len(history) = 2
    /\ history[2].appended
    /\ ~history[2].interrupted
    /\ summaries[1].total = 1

-----------------------------------------------------------------------------
(* Properties of the scheduler's life cycle, under SpecLive *)

Running == pc \in {"check", "fetch", "save", "count", "sleep"}
Ended == pc \in {"finally", "done"}
Completed == Ended /\ exit = "deadline"
Interrupted == Ended /\ exit \in {"interrupt", "exception"}

\* C17: the scheduler goes Idle -> Running -> {Completed, Interrupted}: a
\* run that is Running leaves Running; it becomes Completed only from a loop
\* check that finds now >= end_time, Interrupted only from Running by an
\* interrupt or an exception; and once the run has ended there is no fetch,
\* append or sleep any more.
C17_SchedulerLifeCycle ==
    /\ []((Ended => (Completed \/ Interrupted)) /\ (Completed => now >= end_time))
    /\ [][/\ pc = "idle" => pc' \in {"idle", "check"}
          /\ Running => (Running' \/ Ended')
          /\ (Running /\ Completed') => (pc = "check" /\ now >= end_time)
          /\ Ended =>
                /\ Ended'
                /\ <<journal, history, sent, now, fetch_count, exit, form_s, jar>>'
                     = <<journal, history, sent, now, fetch_count, exit, form_s, jar>>
         ]_vars
    /\ Running ~> Ended

C17_Witness ==
    /\ pc = "done"
    /\ Completed
    /\ fetch_count = 2
    /\ Len(history) = 2

-----------------------------------------------------------------------------
(* Properties of the strain, under SpecFetch *)

Abs(x) == IF x >= 0 THEN x ELSE -x

\* the payload's extension, in 1/10000 mm (0 when the payload has none)
PayloadExtension == GetOr(fetched.h.doc.extension, JNum(0))

\* C18: the Sample of a successful fetch has change_in_length_mm equal to
\* the payload's extension rounded to 3 decimals, and strain_percent equal to
\* change_in_length_mm / original_length_mm * 100 rounded to 3 decimals: each
\* is the nearest multiple of 0.001; original length 50.0 and extension 1.255
\* give 1.255 and 2.51.
C18_StrainIsRoundedRatio ==
    (fetched.called /\ fetched.kind = "sample" /\ ~IsErrorSample(fetched.sample)) =>
        LET change == fetched.sample.change_in_length_mm
            strain == fetched.sample.strain_percent
        IN  /\ PayloadExtension.t = "num" =>
                  2 * Abs(10 * change - PayloadExtension.n) <= 10
            /\ 2 * Abs(strain * OriginalLengthMm - 100 * change) <= OriginalLengthMm
            /\ (OriginalLengthMm = 50 /\ PayloadExtension = JNum(12550)) =>
                  (change = 1255 /\ strain = 2510)

C18_Witness ==
    /\ fetched.called
    /\ fetched.kind = "sample"
    /\ ~IsErrorSample(fetched.sample)
    /\ PayloadExtension = JNum(12550)
    /\ fetched.sample.change_in_length_mm = 1255
    /\ fetched.sample.strain_percent = 2510

-----------------------------------------------------------------------------
(* Properties of the session token, under SpecCycles *)

\* the last fetch_sensor_data call has sent its request and the browser's
\* cookies have not changed since
AfterRequest == sent.made /\ refresh.called /\ ~refresh.rotated

\* C19: the request of a cycle carries the token as that cycle's refresh
\* left it; and when the browser's token cookie has changed since the cycle
\* before and the refresh succeeds, the request carries the new token.
C19_RequestCarriesNewToken ==
    AfterRequest =>
        /\ sent.token = form_s
        /\ (~refresh.failed /\ refresh.fresh # {}) => sent.token \in refresh.fresh

-----------------------------------------------------------------------------
(* Properties of the cycle counter, under Spec *)

\* the lines of the journal that hold the rows appended during the run
RunRows == {history[i].line : i \in {k \in 1..Len(history) : history[k].appended}}

\* C20: the rows appended during the run are never more than fetch_count + 1;
\* the counter is incremented once per cycle, after the append attempt and
\* whether or not it succeeded, so between cycles fetch_count minus the rows
\* appended is the number of appends that failed.
C20_CounterFollowsAppends ==
    /\ \A i \in 1..Len(history) :
          history[i].appended => journal.lines[history[i].line] = Row(history[i].sample)
    /\ Cardinality(RunRows) <= fetch_count + 1
    /\ pc \in {"check", "fetch", "save", "sleep"} =>
          /\ Len(history) = fetch_count
          /\ fetch_count - Cardinality(RunRows) = Cardinality(FailedAppends)
    /\ pc = "count" => Len(history) = fetch_count + 1

C20_Witness ==
    /\ pc = "check"
    /\ fetch_count = 2
    /\ ~history[1].appended
    /\ history[2].appended
    /\ Cardinality(RunRows) = 1
    /\ Cardinality(FailedAppends) = 1

=============================================================================
